---- MODULE Spec2Model ----
(***************************************************************************)
(* Model of the dense index of DECAF: the shard builder                    *)
(* (src/main/python/faiss_index.py) and the multi-query search worker      *)
(* (src/main/python/faiss_search.py).                                      *)
(*                                                                         *)
(* Numbers.  The encoder outputs are integer vectors; a component k stands *)
(* for k tenths.  Under the cosine metric vectors are divided by a norm;   *)
(* the quotient x / n is held as the integer (x * Unit) \div n, which is   *)
(* exact for every encoder output of the model (Unit is a multiple of all  *)
(* their norms).  Similarities and scores are integers in the resulting    *)
(* unit; all comparisons are made inside one metric.                       *)
(*                                                                         *)
(* A stored row is a record [doc, vec]: vec is the vector held by faiss,   *)
(* doc is an auxiliary tag naming the input line the row was encoded from. *)
(* The program never reads doc.                                            *)
(***************************************************************************)
EXTENDS Integers, Sequences, FiniteSets, TLC

\* ------------------------------------------------------------------ bounds
MaxLines == 7
MaxBatch == 3
MaxChunk == 3
MaxVecs == 3
MaxDocuments == 2
MaxRebuildLines == 5
MaxSyncLines == 2
MaxSyncBatch == 2
MaxSyncChunk == 1
MaxFiles == 3

\* --------------------------------------------------------------- constants
model_vector_size == 2
Unit == 60
Similarities == {"cos", "dot", "l2", "l2sq"}
\* the values the host may pass as --similarity
SimilarityArgs == Similarities \cup {"other"}
EncVecs == << <<3, 0>>, <<0, 4>>, <<3, 4>> >>
\* the (text, weight) pairs and the numbers of queries of the requests
Queries == {<<1, 2>>, <<3, 1>>, <<2, 0 - 1>>, <<1, 1>>}
QueryCounts == {0, 1, 2}
Ids == <<"a", "b", "c">>

VARIABLES
  stdin,              \* builder: the lines of the input stream (0 = empty line)
  pos,                \* builder: number of lines read by input()
  similarity,         \* --similarity
  batch_size,         \* --batch_size
  chunks_size,        \* --chunks_size
  text_batch,         \* builder: text_batch
  faiss_index,        \* builder: the open shard (rows added so far)
  doc_index_counter,  \* builder: doc_index_counter
  index_counter,      \* builder: index_counter
  disk,               \* shard files: shard number -> rows
  written,            \* the shard numbers given to faiss.write_index, in call order
  added,              \* the rows given to faiss_index.add by this build, in call order
  first,              \* the shard sizes and batch size of the build before this one, if any
  bpc,                \* builder: "init", "run", "done", "failed"
  out,                \* builder: sys.stdout
  err,                \* builder: sys.stderr
  docs_file,          \* the text store: the characters of the "<id>\t<text>\n" file
  refs_file,          \* the offsets file: one integer per line
  spc,                \* searcher: "init", "load", "ready", "reading", "searching", "stopped", "ended",
                      \* "crashed", "killed"
  i,                  \* searcher: the variable i of main (shard number, then query index)
  shards,             \* searcher: the shards added to faiss.IndexShards, in order
  shards_start,       \* searcher: shards_start
  curr_start,         \* searcher: curr_start
  docs_ref,           \* searcher: docs_ref
  num_queries,        \* searcher: num_queries
  queries_vector,     \* searcher: queries_vector
  queries_weight,     \* searcher: queries_weight
  num_documents,      \* searcher: num_documents
  indexes,            \* searcher: indexes, the labels returned by shards.search
  indexes_retrieved,  \* searcher: indexes_retrieved
  vectors,            \* searcher: vectors
  queries_result,     \* searcher: queries_result
  result,             \* searcher: result
  sout,               \* searcher: sys.stdout since the host sent its last request
  serr,               \* searcher: sys.stderr since the host sent its last request
  tasks               \* searcher: the per-shard searches of the shards.search under way

bvars == <<stdin, pos, similarity, batch_size, chunks_size, text_batch,
           faiss_index, doc_index_counter, index_counter, disk, written,
           added, first, bpc, out, err>>

storevars == <<docs_file, refs_file>>

loadvars == <<shards, shards_start, curr_start, docs_ref>>

reqvars == <<num_queries, queries_vector, queries_weight, num_documents,
            indexes, indexes_retrieved, vectors, queries_result, result>>

svars == <<spc, i, loadvars, reqvars, sout, serr>>

vars == <<bvars, storevars, tasks, svars>>

\* ----------------------------------------------------------------- helpers
RECURSIVE SumSeq(_)
SumSeq(s) == IF s = <<>> THEN 0 ELSE Head(s) + SumSeq(Tail(s))

ISqrt(n) == CHOOSE r \in 0..n : r * r <= n /\ n < (r + 1) * (r + 1)

Dot(x, y) == SumSeq([c \in 1..Len(x) |-> x[c] * y[c]])

Norm(x) == ISqrt(Dot(x, x))

Encode(text) == EncVecs[((text - 1) % Len(EncVecs)) + 1]

\* ------------------------------------------------------------ the builder
\* numpy broadcasting of (n, W) / (n,): the shapes agree when n = 1 or n = W
Broadcastable(n) == n = 1 \/ n = model_vector_size

\* vectors / vectors_norm: the divisor of column c is vectors_norm[c]
\* (the only norm when n = 1)
DivideByNorm(vecs, norms) ==
  [r \in 1..Len(vecs) |->
     [c \in 1..model_vector_size |->
        (vecs[r][c] * Unit) \div norms[IF Len(vecs) = 1 THEN 1 ELSE c]]]

\* mutant of process_batch: the rows of a batch are added last first
process_batch_reversed(batch) ==
  [r \in 1..Len(batch) |->
     [doc |-> batch[Len(batch) + 1 - r],
      vec |-> Encode(batch[Len(batch) + 1 - r])]]

\* the rows process_batch hands to faiss_index.add, in order
process_batch(batch) ==
  LET vecs == [r \in 1..Len(batch) |-> Encode(batch[r])]
      norms == [r \in 1..Len(batch) |-> Norm(vecs[r])]
      rows == IF similarity = "cos" THEN DivideByNorm(vecs, norms) ELSE vecs
  IN [r \in 1..Len(batch) |-> [doc |-> batch[r], vec |-> rows[r]]]

\* process_batch returns: no exception from the division (an empty batch is
\* not divided: lines 56-57, 176)
BatchOK(batch) ==
  Len(batch) = 0 \/ similarity # "cos" \/ Broadcastable(Len(batch))

\* mutant of write_index: the file is opened for appending, so what a file
\* of that name already holds is kept in front of the new shard
write_index_append(dir, index, n) ==
  (n :> ((IF n \in DOMAIN dir THEN dir[n] ELSE <<>>) \o index)) @@ dir

\* faiss.write_index(faiss_index, index_filename % n)
write_index(dir, index, n) == (n :> index) @@ dir

\* mutant of ReachedChunk: the shard is closed one batch late
ReachedChunkStrict(count) == count > chunks_size

\* mutant of ReachedChunk: the shard is closed at every flush point
ReachedChunkAlways(count) == count >= 0

\* line 188: the open shard has reached its size
ReachedChunk(count) == count >= chunks_size

\* mutant of FinalFlush: an open shard below its size is not written
FinalFlushFullOnly(count) == count >= chunks_size

\* line 230: documents are left in the open shard at the end of the input
FinalFlush(count) == count > 0

\* mutant of FileNumber: the number of the shard written last is used again
FileNumberReused(counter) == IF counter > 2 THEN counter - 1 ELSE counter

\* lines 192-193 and 234-235: the number filled into index_filename, counter
\* being index_counter after its increment
FileNumber(counter) == counter

\* the k-th non-empty line carries the text k
Lines(n, f) ==
  [j \in 1..n |-> IF f[j] THEN Cardinality({h \in 1..j : f[h]}) ELSE 0]

BuildInit(maxlines) ==
  /\ \E n \in 0..maxlines : \E f \in [1..n -> BOOLEAN] : stdin = Lines(n, f)
  /\ pos = 0
  /\ similarity \in SimilarityArgs
  /\ batch_size \in 0..MaxBatch
  /\ chunks_size \in 0..MaxChunk
  /\ text_batch = <<>>
  /\ faiss_index = <<>>
  /\ doc_index_counter = 0
  /\ index_counter = 0
  /\ disk = <<>>
  /\ written = <<>>
  /\ added = <<>>
  /\ first = <<>>
  /\ bpc = "init"
  /\ out = <<>>
  /\ err = <<>>

\* mutant of ConfigOK: the check of the chunk size is missing
ConfigOKNoChunkCheck == similarity \in Similarities /\ batch_size >= 1

\* the configuration is accepted by parse_args and by lines 108-113
ConfigOK ==
  similarity \in Similarities /\ batch_size >= 1 /\ chunks_size >= 1

\* parse_args (choices) or lines 108-113 reject the configuration; handlers
\* of lines 262-272: the message of argparse or the trace is written
BuildConfigError ==
  /\ bpc = "init"
  /\ ~ConfigOK
  /\ bpc' = "failed"
  /\ err' = Append(err, IF similarity \in Similarities THEN "trace"
                        ELSE "usage")
  /\ UNCHANGED <<stdin, pos, similarity, batch_size, chunks_size, text_batch,
                 faiss_index, doc_index_counter, index_counter, disk,
                 written, added, first, out>>
  /\ UNCHANGED <<storevars, tasks, svars>>

\* lines 108-158: the configuration is accepted, the ready line is written
BuildStart ==
  /\ bpc = "init"
  /\ ConfigOK
  /\ bpc' = "run"
  /\ err' = Append(err, "")
  /\ index_counter' = 0
  /\ doc_index_counter' = 0
  /\ text_batch' = <<>>
  /\ faiss_index' = <<>>
  /\ UNCHANGED <<stdin, pos, similarity, batch_size, chunks_size, disk,
                 written, added, first, out>>
  /\ UNCHANGED <<storevars, tasks, svars>>

\* mutant of FlushPoint: an empty line does not flush the batch
FlushPointFullOnly ==
  Len(IF stdin[pos + 1] # 0 THEN Append(text_batch, stdin[pos + 1])
      ELSE text_batch) >= batch_size

\* the batch after line 170
NextBatch == IF stdin[pos + 1] # 0 THEN Append(text_batch, stdin[pos + 1])
             ELSE text_batch

\* the condition of line 174
FlushPoint == stdin[pos + 1] = 0 \/ Len(NextBatch) >= batch_size

\* lines 166-174: a non-empty line that does not fill the batch
BuildAppend ==
  /\ bpc = "run"
  /\ pos < Len(stdin)
  /\ ~FlushPoint
  /\ text_batch' = NextBatch
  /\ pos' = pos + 1
  /\ UNCHANGED <<stdin, similarity, batch_size, chunks_size, faiss_index,
                 doc_index_counter, index_counter, disk, written, added,
                 first, bpc, out, err>>
  /\ UNCHANGED <<storevars, tasks, svars>>

\* lines 166-215 when the open shard stays below chunks_size
BuildFlush ==
  /\ bpc = "run"
  /\ pos < Len(stdin)
  /\ FlushPoint
  /\ BatchOK(NextBatch)
  /\ ~ReachedChunk(doc_index_counter + Len(NextBatch))
  /\ pos' = pos + 1
  /\ faiss_index' = faiss_index \o process_batch(NextBatch)
  /\ added' = added \o process_batch(NextBatch)
  /\ doc_index_counter' = doc_index_counter + Len(NextBatch)
  /\ text_batch' = <<>>
  /\ err' = Append(err, "")
  /\ out' = out \o <<"ext_time", "index_time">>
  /\ UNCHANGED <<stdin, similarity, batch_size, chunks_size, index_counter,
                 disk, written, first, bpc>>
  /\ UNCHANGED <<storevars, tasks, svars>>

\* mutant of BuildRollover: the shard is closed as soon as it holds
\* chunks_size rows, the rest of the batch opens the next shard
BuildRolloverSplit ==
  /\ bpc = "run"
  /\ pos < Len(stdin)
  /\ FlushPoint
  /\ BatchOK(NextBatch)
  /\ ReachedChunk(doc_index_counter + Len(NextBatch))
  /\ pos' = pos + 1
  /\ added' = added \o process_batch(NextBatch)
  /\ index_counter' = index_counter + 1
  /\ disk' = write_index(disk,
                         SubSeq(faiss_index \o process_batch(NextBatch),
                                1, chunks_size),
                         FileNumber(index_counter + 1))
  /\ written' = Append(written, FileNumber(index_counter + 1))
  /\ faiss_index' = SubSeq(faiss_index \o process_batch(NextBatch),
                           chunks_size + 1,
                           doc_index_counter + Len(NextBatch))
  /\ doc_index_counter' = doc_index_counter + Len(NextBatch) - chunks_size
  /\ text_batch' = <<>>
  /\ err' = Append(err, "")
  /\ out' = out \o <<"ext_time", "index_time">>
  /\ UNCHANGED <<stdin, similarity, batch_size, chunks_size, first, bpc>>
  /\ UNCHANGED <<storevars, tasks, svars>>

\* lines 166-215 when the open shard has reached chunks_size
BuildRollover ==
  /\ bpc = "run"
  /\ pos < Len(stdin)
  /\ FlushPoint
  /\ BatchOK(NextBatch)
  /\ ReachedChunk(doc_index_counter + Len(NextBatch))
  /\ pos' = pos + 1
  /\ added' = added \o process_batch(NextBatch)
  /\ index_counter' = index_counter + 1
  /\ disk' = write_index(disk, faiss_index \o process_batch(NextBatch),
                         FileNumber(index_counter + 1))
  /\ written' = Append(written, FileNumber(index_counter + 1))
  /\ faiss_index' = <<>>
  /\ doc_index_counter' = 0
  /\ text_batch' = <<>>
  /\ err' = Append(err, "")
  /\ out' = out \o <<"ext_time", "index_time">>
  /\ UNCHANGED <<stdin, similarity, batch_size, chunks_size, first, bpc>>
  /\ UNCHANGED <<storevars, tasks, svars>>

\* mutant of BuildBatchError: the sync line of the batch is written before
\* the batch is processed
BuildBatchErrorAfterSync ==
  /\ bpc = "run"
  /\ pos < Len(stdin)
  /\ FlushPoint
  /\ Len(NextBatch) > 0
  /\ pos' = pos + 1
  /\ text_batch' = NextBatch
  /\ bpc' = "failed"
  /\ err' = err \o <<"", "trace">>
  /\ UNCHANGED <<stdin, similarity, batch_size, chunks_size, faiss_index,
                 doc_index_counter, index_counter, disk, written, added,
                 first, out>>
  /\ UNCHANGED <<storevars, tasks, svars>>

\* mutant of BuildBatchError: the open shard is written before the build
\* ends with the trace
BuildBatchErrorFlushing ==
  /\ bpc = "run"
  /\ pos < Len(stdin)
  /\ FlushPoint
  /\ Len(NextBatch) > 0
  /\ pos' = pos + 1
  /\ text_batch' = NextBatch
  /\ bpc' = "failed"
  /\ err' = Append(err, "trace")
  /\ index_counter' = index_counter + 1
  /\ disk' = write_index(disk, faiss_index, FileNumber(index_counter + 1))
  /\ written' = Append(written, FileNumber(index_counter + 1))
  /\ UNCHANGED <<stdin, similarity, batch_size, chunks_size, faiss_index,
                 doc_index_counter, added, first, out>>
  /\ UNCHANGED <<storevars, tasks, svars>>

\* lines 166-177: process_batch raises (the encoder fails, or the cosine
\* division cannot be broadcast); handler of lines 265-272
BuildBatchError ==
  /\ bpc = "run"
  /\ pos < Len(stdin)
  /\ FlushPoint
  /\ Len(NextBatch) > 0
  /\ pos' = pos + 1
  /\ text_batch' = NextBatch
  /\ bpc' = "failed"
  /\ err' = Append(err, "trace")
  /\ UNCHANGED <<stdin, similarity, batch_size, chunks_size, faiss_index,
                 doc_index_counter, index_counter, disk, written, added,
                 first, out>>
  /\ UNCHANGED <<storevars, tasks, svars>>

\* lines 217-247: end of input
BuildEOF ==
  /\ bpc = "run"
  /\ pos = Len(stdin)
  /\ BatchOK(text_batch)
  /\ LET index == faiss_index \o process_batch(text_batch)
         count == doc_index_counter + Len(text_batch)
     IN /\ faiss_index' = index
        /\ added' = added \o process_batch(text_batch)
        /\ doc_index_counter' = count
        /\ IF FinalFlush(count)
           THEN /\ index_counter' = index_counter + 1
                /\ disk' = write_index(disk, index,
                                       FileNumber(index_counter + 1))
                /\ written' = Append(written, FileNumber(index_counter + 1))
           ELSE UNCHANGED <<index_counter, disk, written>>
  /\ err' = Append(err, "")
  /\ out' = out \o <<"ext_time", "index_time">>
  /\ bpc' = "done"
  /\ UNCHANGED <<stdin, pos, similarity, batch_size, chunks_size, text_batch,
                 first>>
  /\ UNCHANGED <<storevars, tasks, svars>>

\* lines 221-223: process_batch raises on the last batch
BuildEOFError ==
  /\ bpc = "run"
  /\ pos = Len(stdin)
  /\ Len(text_batch) > 0
  /\ bpc' = "failed"
  /\ err' = Append(err, "trace")
  /\ UNCHANGED <<stdin, pos, similarity, batch_size, chunks_size, text_batch,
                 faiss_index, doc_index_counter, index_counter, disk,
                 written, added, first, out>>
  /\ UNCHANGED <<storevars, tasks, svars>>

\* ------------------------------------------------------- the search worker
Min(a, b) == IF a < b THEN a ELSE b

Range(s) == {s[k] : k \in DOMAIN s}

RECURSIVE Flatten(_)
Flatten(ss) == IF ss = <<>> THEN <<>> ELSE Head(ss) \o Flatten(Tail(ss))

\* the members of S by key descending; equal keys in ascending ordinal order
RECURSIVE SortDescending(_, _)
SortDescending(S, key) ==
  IF S = {} THEN <<>>
  ELSE LET m == CHOOSE a \in S :
                  \A b \in S : key[a] > key[b] \/ (key[a] = key[b] /\ a <= b)
       IN <<m>> \o SortDescending(S \ {m}, key)

SqDist(x, y) == SumSeq([c \in 1..Len(x) |-> (x[c] - y[c]) * (x[c] - y[c])])

\* mutant of compute_similarity: "dot" falls into the branch of "l2sq"
compute_similarity_dot_as_l2sq(x, y, sim) ==
  IF sim = "cos" THEN SumSeq([c \in 1..Len(x) |-> x[c] * y[c]])
  ELSE IF sim = "l2"
       THEN ISqrt(SumSeq([c \in 1..Len(x) |-> (x[c] - y[c]) * (x[c] - y[c])]))
  ELSE SumSeq([c \in 1..Len(x) |-> (x[c] - y[c]) * (x[c] - y[c])])

\* mutant of compute_similarity: the distances are inverted, so that a
\* nearer vector scores higher
compute_similarity_inverted(x, y, sim) ==
  IF sim = "cos" \/ sim = "dot" THEN SumSeq([c \in 1..Len(x) |-> x[c] * y[c]])
  ELSE IF sim = "l2"
       THEN 0 - ISqrt(SumSeq([c \in 1..Len(x) |-> (x[c] - y[c]) * (x[c] - y[c])]))
  ELSE 0 - SumSeq([c \in 1..Len(x) |-> (x[c] - y[c]) * (x[c] - y[c])])

compute_similarity(x, y, sim) ==
  IF sim = "cos" \/ sim = "dot" THEN Dot(x, y)
  ELSE IF sim = "l2" THEN ISqrt(SqDist(x, y))
  ELSE SqDist(x, y)

\* mutant of bisect: bisect_left, the insertion point to the left of x
bisect_left(starts, x) == Cardinality({k \in 1..Len(starts) : starts[k] < x})

\* bisect.bisect(starts, x): the insertion point to the right of every
\* element <= x of the ascending list starts
bisect(starts, x) == Cardinality({k \in 1..Len(starts) : starts[k] <= x})

\* mutant of Lookup: the - 1 of line 85 is left out
LookupNextShard(x, starts) ==
  [shard |-> Cardinality({k \in 1..Len(starts) : starts[k] <= x}) + 1,
   offset |-> x - starts[Min(Cardinality({k \in 1..Len(starts) : starts[k] <= x}) + 1,
                             Len(starts))]]

\* the shard (1-based position in shards) and local offset of ordinal x
Lookup(x, starts) ==
  LET s == bisect(starts, x) IN [shard |-> s, offset |-> x - starts[s]]

\* mutant of retrieve_vector_from_index: the first row of the shard is
\* reconstructed, whatever the local offset
retrieve_first_of_shard(x, shs, starts) ==
  shs[Cardinality({k \in 1..Len(starts) : starts[k] <= x})][1].vec

\* shards.at(i).reconstruct(j)
retrieve_vector_from_index(x, shs, starts) ==
  LET at == Lookup(x, starts) IN shs[at.shard][at.offset + 1].vec

\* rows 168-172: the query vector, normalised under the cosine metric
QueryVector(text) ==
  LET v == Encode(text)
  IN IF similarity = "cos"
     THEN [c \in 1..Len(v) |-> (v[c] * Unit) \div Norm(v)]
     ELSE v

\* IndexFlatIP ranks by inner product descending, IndexFlatL2 by squared
\* distance ascending
SearchKey(v, q) ==
  IF similarity = "cos" \/ similarity = "dot" THEN Dot(v, q)
  ELSE 0 - SqDist(v, q)

\* shards.search for one query: IndexShards numbers the rows of the shards
\* successively; a best-k set is any set of min(k, N) ordinals none of which
\* ranks below an ordinal left out (faiss decides between equal keys)
TopKSets(shs, q, k) ==
  LET rows == Flatten(shs)
      N == Len(rows)
      key == [a \in 0..(N - 1) |-> SearchKey(rows[a + 1].vec, q)]
  IN {S \in SUBSET (0..(N - 1)) :
        /\ Cardinality(S) = Min(k, N)
        /\ \A a \in S : \A b \in (0..(N - 1)) \ S : key[a] >= key[b]}

\* the k labels of one query: the best-k set, best first, then -1
Labels(shs, q, k, S) ==
  LET rows == Flatten(shs)
      key == [a \in S |-> SearchKey(rows[a + 1].vec, q)]
      best == SortDescending(S, key)
  IN [n \in 1..k |-> IF n <= Len(best) THEN best[n] ELSE 0 - 1]

\* mutant of IndexesRetrieved: indexes[i] is evaluated with the i left by
\* the request served before, when the lists of this request reach that far
IndexesRetrievedStale(idx, main_i, nq) ==
  IF nq > 0
  THEN {x \in Range(idx[IF i < nq THEN i + 1 ELSE main_i + 1]) : x >= 0}
  ELSE {}

\* line 189: indexes[i] is evaluated with the i of main; the i of
\* "for i in range(num_queries)" is local to the comprehension
IndexesRetrieved(idx, main_i, nq) ==
  IF nq > 0 THEN {x \in Range(idx[main_i + 1]) : x >= 0} ELSE {}

\* lines 196-197: a dict comprehension; the entry of x written for query k
\* replaces the entry written for the queries before it
RECURSIVE QueriesResult(_, _, _, _, _)
QueriesResult(U, vecs, qv, weights, nq) ==
  IF nq = 0 THEN [x \in {} |-> 0]
  ELSE [x \in U |->
          SumSeq(<<weights[nq] * compute_similarity(vecs[x], qv[nq], similarity)>>)]
       @@ QueriesResult(U, vecs, qv, weights, nq - 1)

\* mutant of SortedResult: the cut keeps one pair too few
SortedResultShort(qr, k) ==
  [n \in 1..Min(Cardinality(DOMAIN qr), k - 1) |->
     <<SortDescending(DOMAIN qr, qr)[n], qr[SortDescending(DOMAIN qr, qr)[n]]>>]

\* lines 198-199
SortedResult(qr, k) ==
  LET order == SortDescending(DOMAIN qr, qr)
  IN [n \in 1..Min(Len(order), k) |-> <<order[n], qr[order[n]]>>]

\* ---- the text store
Blank == {" ", "\t", "\r", "\n"}

RECURSIVE Strip(_)
Strip(s) ==
  IF s = <<>> THEN s
  ELSE IF Head(s) \in Blank THEN Strip(Tail(s))
  ELSE IF s[Len(s)] \in Blank THEN Strip(SubSeq(s, 1, Len(s) - 1))
  ELSE s

\* str.split('\t'): the fields between all the tabs
RECURSIVE Split(_)
Split(s) ==
  IF \A k \in 1..Len(s) : s[k] # "\t" THEN <<s>>
  ELSE LET t == CHOOSE k \in 1..Len(s) :
                  s[k] = "\t" /\ \A h \in 1..(k - 1) : s[h] # "\t"
       IN <<SubSeq(s, 1, t - 1)>> \o Split(SubSeq(s, t + 1, Len(s)))

\* f.seek(off); f.readline()
ReadLine(file, off) ==
  IF off >= Len(file) THEN <<>>
  ELSE LET ends == {k \in (off + 1)..Len(file) : file[k] = "\n"}
           stop == IF ends = {} THEN Len(file)
                   ELSE CHOOSE k \in ends : \A h \in ends : k <= h
       IN SubSeq(file, off + 1, stop)

Fields(file, refs, o) == Split(Strip(ReadLine(file, refs[o + 1])))

\* lines 209-212 raise no IndexError
Hydratable(file, refs, o) ==
  o + 1 <= Len(refs) /\ Len(Fields(file, refs, o)) >= 2

\* lines 205-221: the lines printed before the first failing result
RECURSIVE Groups(_, _, _)
Groups(file, refs, res) ==
  IF res = <<>> \/ ~Hydratable(file, refs, Head(res)[1]) THEN <<>>
  ELSE LET temp == Fields(file, refs, Head(res)[1])
       IN <<temp[1], Head(res)[2], Head(res)[1], temp[2]>>
          \o Groups(file, refs, Tail(res))

Response(file, refs, res) == <<Len(res)>> \o Groups(file, refs, res)

\* the line of ordinal o in the text store; tabbed = FALSE leaves the tab out
\* of the lines of odd ordinals
DocLine(o, tabbed) ==
  LET id == Ids[(o % Len(Ids)) + 1]
  IN IF o % 3 = 0 THEN <<id, "\t", "x", "\n">>
     ELSE IF o % 3 = 2 THEN <<id, "\t", "x", "\t", "y", "\n">>
     ELSE IF tabbed THEN <<id, "\t", "y", " ", "\n">>
     ELSE <<id, "\n">>

DocsFile(n, tabbed) == Flatten([o \in 1..n |-> DocLine(o - 1, tabbed)])

\* the offset of the first character of each line
Offsets(n, tabbed) ==
  [o \in 1..n |-> Len(DocsFile(o - 1, tabbed))]

\* the variables of the search worker before it starts
SearchOff ==
  /\ spc = "init"
  /\ tasks = <<>>
  /\ i = 0
  /\ shards = <<>>
  /\ shards_start = <<>>
  /\ curr_start = 0
  /\ docs_ref = <<>>
  /\ num_queries = 0
  /\ queries_vector = <<>>
  /\ queries_weight = <<>>
  /\ num_documents = 0
  /\ indexes = <<>>
  /\ indexes_retrieved = {}
  /\ vectors = <<>>
  /\ queries_result = <<>>
  /\ result = <<>>
  /\ sout = <<>>
  /\ serr = <<>>

\* lines 96-133: the offsets are read, the shard collection is created
SearchStart ==
  /\ spc = "init"
  /\ bpc \in {"done", "failed"}
  /\ similarity \in Similarities
  /\ docs_ref' = refs_file
  /\ shards' = <<>>
  /\ shards_start' = <<>>
  /\ curr_start' = 0
  /\ i' = 1
  /\ spc' = "load"
  /\ UNCHANGED <<bvars, storevars, tasks, reqvars, sout, serr>>

\* parse_args (choices) or lines 105-106 reject the similarity; handlers of
\* lines 235-245: the message of argparse or the trace is written
SearchConfigError ==
  /\ spc = "init"
  /\ bpc \in {"done", "failed"}
  /\ similarity \notin Similarities
  /\ serr' = Append(serr, "usage")
  /\ spc' = "crashed"
  /\ UNCHANGED <<bvars, storevars, tasks, i, loadvars, reqvars, sout>>

\* mutant of Readable: a file of another vector width is taken as a shard
ReadableAnyWidth(dir, n) == n \in DOMAIN dir

\* lines 136-137: faiss.read_index(index_filename % n) and shards.add_shard
\* raise no exception: the file exists and holds an index of the width of
\* the shard collection
Readable(dir, n) ==
  /\ n \in DOMAIN dir
  /\ \A r \in 1..Len(dir[n]) : Len(dir[n][r].vec) = model_vector_size

\* lines 135-142: faiss.read_index(index_filename % i) succeeds
SearchLoadShard ==
  /\ spc = "load"
  /\ Readable(disk, i)
  /\ shards' = Append(shards, disk[i])
  /\ shards_start' = Append(shards_start, curr_start)
  /\ curr_start' = curr_start + Len(disk[i])
  /\ i' = i + 1
  /\ UNCHANGED <<bvars, storevars, tasks, docs_ref, spc, reqvars, sout, serr>>

\* lines 143-150: the first shard number without a file ends the loading
SearchLoadEnd ==
  /\ spc = "load"
  /\ ~Readable(disk, i)
  /\ serr' = Append(serr, "")
  /\ spc' = "ready"
  /\ UNCHANGED <<bvars, storevars, tasks, i, loadvars, reqvars, sout>>

\* ---- one request (lines 156-227)
Zeros == [c \in 1..model_vector_size |-> 0]

\* the locals after the line of Q, m whole (text, weight) pairs and, when
\* text is TRUE, the text of pair m + 1 have been read
ReadVectors(Q, texts, m, text) ==
  [k \in 1..Q |-> IF k <= m \/ (text /\ k = m + 1)
                  THEN QueryVector(texts[k]) ELSE Zeros]

ReadWeights(weights, m) == [k \in 1..m |-> weights[k]]

\* the i of main when the reading stops in pair m + 1, or after the loop
ReadIndex(Q, m) == IF m < Q THEN m ELSE IF Q > 0 THEN Q - 1 ELSE i

\* shards.search(queries_vector, K): one list of K labels per query
RECURSIVE SearchResults(_, _, _)
SearchResults(qv, nq, K) ==
  IF nq = 0 THEN {<<>>}
  ELSE {Append(p, Labels(shards, qv[nq], K, S)) :
          p \in SearchResults(qv, nq - 1, K),
          S \in TopKSets(shards, qv[nq], K)}

\* lines 162-199 for the labels idx: the values of the locals
Searched(Q, texts, weights, K, idx) ==
  LET qv == ReadVectors(Q, texts, Q, FALSE)
      U == IndexesRetrieved(idx, ReadIndex(Q, Q), Q)
      vecs == [x \in U |-> retrieve_vector_from_index(x, shards, shards_start)]
      qr == QueriesResult(U, vecs, qv, weights, Q)
  IN [num_queries |-> Q,
      queries_vector |-> qv,
      queries_weight |-> ReadWeights(weights, Q),
      i |-> ReadIndex(Q, Q),
      num_documents |-> K,
      indexes |-> idx,
      indexes_retrieved |-> U,
      vectors |-> vecs,
      queries_result |-> qr,
      result |-> SortedResult(qr, K)]

AllHydratable(res) ==
  \A n \in 1..Len(res) : Hydratable(docs_file, docs_ref, res[n][1])

Assign(a) ==
  /\ num_queries' = a.num_queries
  /\ queries_vector' = a.queries_vector
  /\ queries_weight' = a.queries_weight
  /\ i' = a.i
  /\ num_documents' = a.num_documents
  /\ indexes' = a.indexes
  /\ indexes_retrieved' = a.indexes_retrieved
  /\ vectors' = a.vectors
  /\ queries_result' = a.queries_result
  /\ result' = a.result

\* mutant of SearchServe: the offset of each result is taken out of the
\* offsets table when its record is read
SearchServeConsuming ==
  /\ spc = "ready"
  /\ \E Q \in QueryCounts \ {0}, K \in 1..MaxDocuments :
       \E qs \in [1..Q -> Queries] :
         LET texts == [k \in 1..Q |-> qs[k][1]]
             weights == [k \in 1..Q |-> qs[k][2]]
         IN \E idx \in SearchResults(ReadVectors(Q, texts, Q, FALSE), Q, K) :
              \E a \in {Searched(Q, texts, weights, K, idx)} :
                 /\ AllHydratable(a.result)
                 /\ Assign(a)
                 /\ sout' = Response(docs_file, docs_ref, a.result)
                 /\ serr' = <<"">>
                 /\ docs_ref' = SubSeq(docs_ref, 1, Len(docs_ref) - Len(a.result))
  /\ UNCHANGED <<bvars, storevars, tasks, spc, shards, shards_start, curr_start>>

\* a request with Q >= 1 and K >= 1 is answered
SearchServe ==
  /\ spc = "ready"
  /\ \E Q \in QueryCounts \ {0}, K \in 1..MaxDocuments :
       \E qs \in [1..Q -> Queries] :
         LET texts == [k \in 1..Q |-> qs[k][1]]
             weights == [k \in 1..Q |-> qs[k][2]]
         IN \E idx \in SearchResults(ReadVectors(Q, texts, Q, FALSE), Q, K) :
              \E a \in {Searched(Q, texts, weights, K, idx)} :
                 /\ AllHydratable(a.result)
                 /\ Assign(a)
                 /\ sout' = Response(docs_file, docs_ref, a.result)
                 /\ serr' = <<"">>
  /\ UNCHANGED <<bvars, storevars, tasks, spc, loadvars>>

\* lines 207-212 raise IndexError; handler of lines 238-245
SearchHydrateError ==
  /\ spc = "ready"
  /\ \E Q \in QueryCounts \ {0}, K \in 1..MaxDocuments :
       \E qs \in [1..Q -> Queries] :
         LET texts == [k \in 1..Q |-> qs[k][1]]
             weights == [k \in 1..Q |-> qs[k][2]]
         IN \E idx \in SearchResults(ReadVectors(Q, texts, Q, FALSE), Q, K) :
              \E a \in {Searched(Q, texts, weights, K, idx)} :
                 /\ ~AllHydratable(a.result)
                 /\ Assign(a)
                 /\ sout' = Response(docs_file, docs_ref, a.result)
                 /\ serr' = <<"IndexError">>
  /\ spc' = "crashed"
  /\ UNCHANGED <<bvars, storevars, tasks, loadvars>>

\* the process has ended: its variables are gone
Exited ==
  /\ i' = 0
  /\ num_queries' = 0
  /\ queries_vector' = <<>>
  /\ queries_weight' = <<>>
  /\ num_documents' = 0
  /\ indexes' = <<>>
  /\ indexes_retrieved' = {}
  /\ vectors' = <<>>
  /\ queries_result' = <<>>
  /\ result' = <<>>

\* Q = 0 and K >= 1: indexes has no row, indexes[i] of line 189 raises
\* IndexError; handler of lines 238-245
SearchNoQueries ==
  /\ spc = "ready"
  /\ \E Q \in QueryCounts, K \in 1..MaxDocuments : Q = 0
  /\ sout' = <<>>
  /\ serr' = <<"IndexError">>
  /\ spc' = "crashed"
  /\ Exited
  /\ UNCHANGED <<bvars, storevars, tasks, loadvars>>

\* mutant of SearchStop: the sync line is written before the loop is left
SearchStopSynced ==
  /\ spc = "ready"
  /\ \E Q \in QueryCounts, K \in {0 - 1, 0} : K < 1
  /\ sout' = <<>>
  /\ serr' = <<"">>
  /\ spc' = "stopped"
  /\ Exited
  /\ UNCHANGED <<bvars, storevars, tasks, loadvars>>

\* lines 178-180: K < 1 ends the run
SearchStop ==
  /\ spc = "ready"
  /\ \E Q \in QueryCounts, K \in {0 - 1, 0} : K < 1
  /\ sout' = <<>>
  /\ serr' = <<>>
  /\ spc' = "stopped"
  /\ Exited
  /\ UNCHANGED <<bvars, storevars, tasks, loadvars>>

\* lines 181-182: the input channel is closed, before the line of Q or
\* inside a request (EOFError from any input())
SearchEOF ==
  /\ spc = "ready"
  /\ sout' = <<>>
  /\ serr' = <<>>
  /\ spc' = "ended"
  /\ Exited
  /\ UNCHANGED <<bvars, storevars, tasks, loadvars>>

\* a line of Q, of a weight or of K is no number: int() or float() raises
\* ValueError, which line 181 does not catch; handler of lines 238-245
SearchBadLine ==
  /\ spc = "ready"
  /\ sout' = <<>>
  /\ serr' = <<"ValueError">>
  /\ spc' = "crashed"
  /\ Exited
  /\ UNCHANGED <<bvars, storevars, tasks, loadvars>>

\* with no shard loaded IndexShards.search writes translations[0] of an
\* empty array: the process may be killed by the write
SearchNoShards ==
  /\ spc = "ready"
  /\ shards = <<>>
  /\ \E Q \in QueryCounts, K \in 1..MaxDocuments : K >= 1
  /\ sout' = <<>>
  /\ serr' = <<>>
  /\ spc' = "killed"
  /\ Exited
  /\ UNCHANGED <<bvars, storevars, tasks, loadvars>>

\* ---- the search of line 186 on the threaded shard collection
\* (faiss.IndexShards(model_vector_size, True, True), line 129: every shard
\* added has a worker thread of its own; search hands one task to each and
\* waits for them all)
ThreadedQueryCounts == {1}

\* lines 162-186: the request is read and shards.search hands the search of
\* each shard to the worker thread of that shard
SearchSubmit ==
  /\ spc = "ready"
  /\ shards # <<>>
  /\ \E Q \in ThreadedQueryCounts, K \in 1..MaxDocuments :
       \E qs \in [1..Q -> Queries] :
         /\ num_queries' = Q
         /\ queries_vector' =
              ReadVectors(Q, [k \in 1..Q |-> qs[k][1]], Q, FALSE)
         /\ queries_weight' = ReadWeights([k \in 1..Q |-> qs[k][2]], Q)
         /\ i' = ReadIndex(Q, Q)
         /\ num_documents' = K
  /\ tasks' = [s \in 1..Len(shards) |-> "queued"]
  /\ spc' = "searching"
  /\ sout' = <<>>
  /\ serr' = <<>>
  /\ UNCHANGED <<bvars, storevars, loadvars, indexes, indexes_retrieved,
                 vectors, queries_result, result>>

\* the worker thread of a shard takes its task: the search of that shard
\* starts
ShardSearchStart ==
  /\ spc = "searching"
  /\ \E s \in DOMAIN tasks :
       /\ tasks[s] = "queued"
       /\ tasks' = [tasks EXCEPT ![s] = "running"]
  /\ UNCHANGED <<bvars, storevars, svars>>

\* the search of a shard ends
ShardSearchEnd ==
  /\ spc = "searching"
  /\ \E s \in DOMAIN tasks :
       /\ tasks[s] = "running"
       /\ tasks' = [tasks EXCEPT ![s] = "done"]
  /\ UNCHANGED <<bvars, storevars, svars>>

\* mutant of Joined: the main thread goes on when one task has ended
JoinedAny == \E s \in DOMAIN tasks : tasks[s] = "done"

\* the main thread has waited for the task of every shard
Joined == \A s \in DOMAIN tasks : tasks[s] = "done"

\* lines 186-227 once the tasks have ended: the lists are merged and the
\* request goes on in the main thread, up to the sync line or to the
\* IndexError of lines 207-212
SearchJoin ==
  /\ spc = "searching"
  /\ Joined
  /\ \E qs \in [1..num_queries -> Queries] :
       LET texts == [k \in 1..num_queries |-> qs[k][1]]
           weights == [k \in 1..num_queries |-> qs[k][2]]
       IN /\ queries_vector = ReadVectors(num_queries, texts, num_queries, FALSE)
          /\ queries_weight = ReadWeights(weights, num_queries)
          /\ \E idx \in SearchResults(queries_vector, num_queries, num_documents) :
               \E a \in {Searched(num_queries, texts, weights, num_documents, idx)} :
                  /\ Assign(a)
                  /\ sout' = Response(docs_file, docs_ref, a.result)
                  /\ IF AllHydratable(a.result)
                     THEN serr' = <<"">> /\ spc' = "ready"
                     ELSE serr' = <<"IndexError">> /\ spc' = "crashed"
  /\ tasks' = <<>>
  /\ UNCHANGED <<bvars, storevars, loadvars>>

\* ---- the lines of a request, read one input() at a time
\* lines 162-164: the line of Q is read
SearchReadCount ==
  /\ spc = "ready"
  /\ \E Q \in QueryCounts \ {0} :
       /\ num_queries' = Q
       /\ queries_vector' = [k \in 1..Q |-> Zeros]
  /\ queries_weight' = <<>>
  /\ spc' = "reading"
  /\ sout' = <<>>
  /\ serr' = <<>>
  /\ UNCHANGED <<bvars, storevars, tasks, i, loadvars, num_documents, indexes,
                 indexes_retrieved, vectors, queries_result, result>>

\* lines 166-175: the text and the weight of the next query are read
SearchReadPair ==
  /\ spc = "reading"
  /\ Len(queries_weight) < num_queries
  /\ \E q \in Queries :
       /\ queries_vector' =
            [queries_vector EXCEPT ![Len(queries_weight) + 1] = QueryVector(q[1])]
       /\ queries_weight' = Append(queries_weight, q[2])
  /\ i' = Len(queries_weight)
  /\ UNCHANGED <<bvars, storevars, tasks, spc, loadvars, num_queries,
                 num_documents, indexes, indexes_retrieved, vectors,
                 queries_result, result, sout, serr>>

\* lines 178-186: the line of K is read; K < 1 ends the run, otherwise
\* shards.search is called
SearchReadDocuments ==
  /\ spc = "reading"
  /\ Len(queries_weight) = num_queries
  /\ \E K \in 0..MaxDocuments :
       /\ num_documents' = K
       /\ IF K < 1
          THEN spc' = "stopped" /\ tasks' = tasks
          ELSE /\ spc' = "searching"
               /\ tasks' = [s \in 1..Len(shards) |-> "queued"]
  /\ UNCHANGED <<bvars, storevars, i, loadvars, num_queries, queries_vector,
                 queries_weight, indexes, indexes_retrieved, vectors,
                 queries_result, result, sout, serr>>

\* mutant of SearchReadEOF: the closing of the channel also ends a request
\* that is being searched
SearchReadEOFAnytime ==
  /\ spc \in {"ready", "reading", "searching"}
  /\ spc' = "ended"
  /\ tasks' = <<>>
  /\ UNCHANGED <<bvars, storevars, i, loadvars, reqvars, sout, serr>>

\* lines 181-182: an input() finds the channel closed, at the line of Q or
\* at a later line of the request; the loop is left and main returns
SearchReadEOF ==
  /\ spc \in {"ready", "reading"}
  /\ spc' = "ended"
  /\ tasks' = <<>>
  /\ UNCHANGED <<bvars, storevars, i, loadvars, reqvars, sout, serr>>

\* a build into a directory holding no shard file, then the load of the
\* search worker
Init ==
  /\ BuildInit(MaxLines)
  /\ docs_file = DocsFile(MaxLines, TRUE)
  /\ refs_file = Offsets(MaxLines, TRUE)
  /\ SearchOff

Next ==
  \/ BuildConfigError
  \/ BuildStart
  \/ BuildAppend
  \/ BuildFlush
  \/ BuildRollover
  \/ BuildBatchError
  \/ BuildEOF
  \/ BuildEOFError
  \/ SearchStart
  \/ SearchConfigError
  \/ SearchLoadShard
  \/ SearchLoadEnd

Spec == Init /\ [][Next]_vars

\* the shard files of an index of n rows: row k encodes text k, and cut[k]
\* tells whether a shard ends after row k
RECURSIVE ShardFiles(_, _, _)
ShardFiles(n, cut, from) ==
  IF from > n THEN <<>>
  ELSE LET ends == {k \in from..n : k = n \/ cut[k]}
           stop == CHOOSE k \in ends : \A h \in ends : k <= h
       IN <<process_batch([k \in 1..(stop - from + 1) |-> from + k - 1])>>
          \o ShardFiles(n, cut, stop + 1)

\* a search worker started on the shard files of a finished build
SearchInit ==
  /\ stdin = <<>>
  /\ pos = 0
  /\ similarity \in Similarities
  /\ batch_size = 1
  /\ chunks_size = 1
  /\ text_batch = <<>>
  /\ faiss_index = <<>>
  /\ doc_index_counter = 0
  /\ index_counter = 0
  /\ \E n \in 0..MaxVecs : \E cut \in [1..(n - 1) -> BOOLEAN] :
       disk = ShardFiles(n, cut, 1)
  /\ written = <<>>
  /\ added = <<>>
  /\ first = <<>>
  /\ bpc = "done"
  /\ out = <<>>
  /\ err = <<>>
  /\ \E tabbed \in BOOLEAN :
       /\ docs_file = DocsFile(MaxVecs, tabbed)
       /\ refs_file = Offsets(MaxVecs, tabbed)
  /\ SearchOff

SearchNext ==
  \/ SearchStart
  \/ SearchLoadShard
  \/ SearchLoadEnd
  \/ SearchServe
  \/ SearchHydrateError
  \/ SearchNoQueries
  \/ SearchStop
  \/ SearchEOF
  \/ SearchBadLine
  \/ SearchNoShards

SearchSpec == SearchInit /\ [][SearchNext]_vars

\* ------------------------------------------------------------- a rebuild
\* the sizes of the shard files written by this build, in writing order
ShardSizes == [k \in 1..Len(written) |-> Len(disk[written[k]])]

\* the host runs the builder once more, with the same shard filename
\* template, the same input and the same chunk size: main starts again
Rebuild ==
  /\ bpc \in {"done", "failed"}
  /\ first = <<>>
  /\ first' = <<[sizes |-> ShardSizes, batch |-> batch_size, ended |-> bpc]>>
  /\ batch_size' \in 1..MaxBatch
  /\ pos' = 0
  /\ text_batch' = <<>>
  /\ faiss_index' = <<>>
  /\ doc_index_counter' = 0
  /\ index_counter' = 0
  /\ written' = <<>>
  /\ added' = <<>>
  /\ out' = <<>>
  /\ err' = <<>>
  /\ bpc' = "init"
  /\ UNCHANGED <<stdin, similarity, chunks_size, disk, storevars, tasks, svars>>

RebuildInit ==
  /\ BuildInit(MaxRebuildLines)
  /\ docs_file = DocsFile(MaxRebuildLines, TRUE)
  /\ refs_file = Offsets(MaxRebuildLines, TRUE)
  /\ SearchOff

RebuildNext ==
  \/ BuildConfigError
  \/ BuildStart
  \/ BuildAppend
  \/ BuildFlush
  \/ BuildRollover
  \/ BuildBatchError
  \/ BuildEOF
  \/ BuildEOFError
  \/ Rebuild

RebuildSpec == RebuildInit /\ [][RebuildNext]_vars

\* ------------------------------------------------------------ properties
\* the vector stored under global ordinal o by the loaded shards
Stored(o) == Flatten(shards)[o + 1].vec

LoadedSizes == [s \in 1..Len(shards) |-> Len(shards[s])]

\* the texts of the non-empty input lines, in input order
NonEmptyLines == SelectSeq(stdin, LAMBDA line : line # 0)

\* the rows of the shard files written so far, shard 1 first
Persisted == Flatten([k \in 1..Len(written) |-> disk[written[k]]])

SevenLines == Len(stdin) = 7 /\ \A j \in 1..7 : stdin[j] # 0

\* C1: the score emitted for every returned ordinal is the sum over all the
\* queries of the request of weight * similarity(stored vector, query vector)
C1_ScoreIsWeightedSum ==
  \A n \in 1..Len(result) :
    result[n][2] =
      SumSeq([k \in 1..num_queries |->
                queries_weight[k] *
                  compute_similarity(Stored(result[n][1]), queries_vector[k],
                                     similarity)])

\* C2: the candidate set is the union of the non-negative ordinals of the
\* top-K lists of all the queries of the request
C2_CandidatesAreUnion ==
  indexes_retrieved =
    UNION {{x \in Range(indexes[k]) : x >= 0} : k \in 1..Len(indexes)}

\* C3: for every global ordinal o below the number of loaded vectors the
\* lookup gives the shard with the greatest start <= o, whose start is the
\* sum of the sizes before it, the offset o - start inside that shard, and
\* the row reconstructed there is the o-th row the builder added
C3_LookupExact ==
  spc = "ready" =>
    \A o \in 0..(curr_start - 1) :
      LET at == Lookup(o, shards_start)
      IN /\ bisect(shards_start, o) - 1 \in 0..(Len(shards) - 1)
         /\ at.shard \in 1..Len(shards)
         /\ \A s \in 1..Len(shards) : shards_start[s] <= o => s <= at.shard
         /\ shards_start[at.shard] =
              SumSeq([k \in 1..(at.shard - 1) |-> Len(shards[k])])
         /\ at.offset = o - shards_start[at.shard]
         /\ 0 <= at.offset /\ at.offset < Len(shards[at.shard])
         /\ shards[at.shard][at.offset + 1] = added[o + 1]
         /\ retrieve_vector_from_index(o, shards, shards_start)
              = added[o + 1].vec

C3_Witness ==
  /\ spc = "ready"
  /\ Len(shards) = 3
  /\ Len(shards[1]) >= 2
  /\ curr_start >= 6

\* C4 as stated: 7 non-empty lines and chunk size 3 give shards of sizes
\* [3, 3, 1] whatever the batch size
C4_SevenLinesAnyBatch ==
  (bpc = "done" /\ SevenLines /\ chunks_size = 3) => ShardSizes = <<3, 3, 1>>

\* C4 amended: a build of 7 non-empty lines with chunk size 3 that ends
\* normally writes shards of sizes [3, 3, 1] when the batch size divides
\* the chunk size (B = 1 or B = 3)
C4_SevenLinesDividingBatch ==
  (bpc = "done" /\ SevenLines /\ chunks_size = 3
     /\ chunks_size % batch_size = 0)
    => ShardSizes = <<3, 3, 1>>

C4_Witness ==
  /\ bpc = "done"
  /\ SevenLines
  /\ chunks_size = 3
  /\ batch_size = 3
  /\ ShardSizes = <<3, 3, 1>>

\* C5 as stated: with loaded shards of sizes [3, 3, 1] ordinal 5 resolves to
\* shard 2 with local offset 1
C5_OrdinalFiveOffsetOne ==
  (spc = "ready" /\ LoadedSizes = <<3, 3, 1>>)
    => Lookup(5, shards_start) = [shard |-> 2, offset |-> 1]

\* C5 amended: with loaded shards of sizes [3, 3, 1] ordinal 5 resolves to
\* shard 2 (1-based) with local offset 2 (0-based)
C5_OrdinalFiveOffsetTwo ==
  (spc = "ready" /\ LoadedSizes = <<3, 3, 1>>)
    => Lookup(5, shards_start) = [shard |-> 2, offset |-> 2]

C5_Witness == spc = "ready" /\ LoadedSizes = <<3, 3, 1>>

\* C6 as stated: every shard file holds at most chunk-size vectors
C6_AtMostChunk == \A n \in DOMAIN disk : Len(disk[n]) <= chunks_size

\* C6 amended: every shard file holds at most C + B - 1 vectors, and only
\* the last shard of a build that ended normally may hold fewer than C
C6_AtMostChunkPlusBatch ==
  \A n \in DOMAIN disk :
    /\ Len(disk[n]) <= chunks_size + batch_size - 1
    /\ Len(disk[n]) < chunks_size => (bpc = "done" /\ n = index_counter)

C6_Witness ==
  /\ bpc = "done"
  /\ batch_size > 1
  /\ index_counter >= 2
  /\ \E n \in DOMAIN disk : Len(disk[n]) = chunks_size + batch_size - 1
  /\ Len(disk[index_counter]) < chunks_size

\* C7: when the build ends normally the sizes of the shard files written
\* sum to the number of non-empty input lines
C7_AllLinesPersisted ==
  bpc = "done" => SumSeq(ShardSizes) = Len(NonEmptyLines)

C7_Witness ==
  /\ bpc = "done"
  /\ batch_size > 1
  /\ Len(text_batch) \in 1..(batch_size - 1)
  /\ index_counter >= 2
  /\ Len(disk[index_counter]) < chunks_size

\* C8: the k-th shard written is written under number k: the numbers
\* written are 1..n, none twice, none skipped
C8_SequentialNumbers ==
  /\ written = [k \in 1..Len(written) |-> k]
  /\ Len(written) = index_counter
  /\ DOMAIN disk = 1..index_counter

C8_Witness == Len(written) >= 3 /\ bpc = "done"

\* C9: the rows of shards 1..n taken in order are the rows of the non-empty
\* input lines in input order, without gap or repetition (the row at
\* ordinal o comes from the o-th non-empty line: it is that line's vector,
\* under cos that line's vector with its components scaled down), and a
\* build that ends normally has stored every non-empty line
C9_InsertionOrder ==
  /\ Len(Persisted) <= Len(NonEmptyLines)
  /\ \A o \in 1..Len(Persisted) :
       /\ Persisted[o].doc = NonEmptyLines[o]
       /\ similarity # "cos" => Persisted[o].vec = Encode(NonEmptyLines[o])
       /\ similarity = "cos" =>
            \A c \in 1..model_vector_size :
              (Persisted[o].vec[c] = 0) = (Encode(NonEmptyLines[o])[c] = 0)
  /\ bpc = "done" => Len(Persisted) = Len(NonEmptyLines)

C9_Witness ==
  /\ bpc = "done"
  /\ batch_size >= 2
  /\ index_counter >= 2
  /\ Len(Persisted) >= 5
  /\ \E j \in 2..(Len(stdin) - 1) : stdin[j] = 0

\* C10 as stated: two builds from the same input with the same chunk size
\* write the same number of shards with the same sizes
C10_SameInputSameChunk ==
  (first # <<>> /\ bpc = "done" /\ first[1].ended = "done")
    => ShardSizes = first[1].sizes

\* C10 amended: two builds that end normally from the same input with the
\* same chunk size and the same batch size write the same number of shards
\* with the same sizes
C10_SameInputSameChunkSameBatch ==
  (first # <<>> /\ bpc = "done" /\ first[1].ended = "done"
     /\ batch_size = first[1].batch)
    => ShardSizes = first[1].sizes

C10_Witness ==
  /\ first # <<>>
  /\ bpc = "done"
  /\ first[1].ended = "done"
  /\ batch_size = first[1].batch
  /\ batch_size = 2
  /\ Len(ShardSizes) >= 2

\* lines 166-185: the batches the lines make at their flush points (a line
\* that is empty or fills the batch), acc being the batch before the lines
RECURSIVE FlushedBatches(_, _, _)
FlushedBatches(lines, B, acc) ==
  IF lines = <<>> THEN <<>>
  ELSE LET batch == IF Head(lines) # 0 THEN Append(acc, Head(lines)) ELSE acc
       IN IF Head(lines) = 0 \/ Len(batch) >= B
          THEN <<batch>> \o FlushedBatches(Tail(lines), B, <<>>)
          ELSE FlushedBatches(Tail(lines), B, batch)

\* the batches of the flush points passed so far, then the batch of the end
\* of the input
Flushed ==
  FlushedBatches(SubSeq(stdin, 1, pos), batch_size, <<>>)
    \o (IF bpc = "done" THEN <<text_batch>> ELSE <<>>)

\* lines 176-177, 221-223: the batches handed to process_batch so far
Handed == SelectSeq(Flushed, LAMBDA batch : batch # <<>>)

BlankLines(channel) == Cardinality({k \in 1..Len(channel) : channel[k] = ""})

\* C11: with chunk size 1 and batch size B > 1 the k-th shard file holds
\* exactly the rows of the k-th non-empty batch handed to the encoder, the
\* leftover batch at the end of the input included: one shard per batch,
\* not one per vector
C11_OneShardPerBatch ==
  (chunks_size = 1 /\ batch_size > 1 /\ bpc \in {"run", "done"}) =>
    /\ Len(written) = Len(Handed)
    /\ \A k \in 1..Len(written) :
         /\ written[k] \in DOMAIN disk
         /\ k <= Len(Handed)
         /\ disk[written[k]] = process_batch(Handed[k])

C11_Witness ==
  /\ chunks_size = 1
  /\ batch_size = 2
  /\ bpc = "done"
  /\ Len(written) >= 3
  /\ Len(disk[1]) = 2
  /\ Len(text_batch) = 1
  /\ Len(disk[Len(written)]) = 1

\* C12: a step that reads an empty line and does not fail adds the rows of
\* all the lines accumulated so far (even fewer than B) to the open shard
\* and empties the batch; it writes a shard file only when the count of the
\* open shard has reached the chunk size, and writes none when the batch
\* was empty
C12_EmptyLineFlushes ==
  [][(/\ bpc = "run" /\ bpc' = "run"
      /\ pos < Len(stdin) /\ pos' = pos + 1
      /\ stdin[pos + 1] = 0)
     => /\ added' = added \o process_batch(text_batch)
        /\ text_batch' = <<>>
        /\ written' = written
             => /\ faiss_index' = faiss_index \o process_batch(text_batch)
                /\ disk' = disk
        /\ written' # written
             => /\ doc_index_counter + Len(text_batch) >= chunks_size
                /\ Len(written') = Len(written) + 1
                /\ disk'[written'[Len(written')]]
                     = faiss_index \o process_batch(text_batch)
        /\ text_batch = <<>> => written' = written]_vars

C12_Witness ==
  /\ bpc = "run"
  /\ pos >= 3
  /\ stdin[pos] = 0
  /\ stdin[pos - 1] # 0
  /\ batch_size = 3
  /\ chunks_size = 3
  /\ Len(faiss_index) = 2
  /\ text_batch = <<>>
  /\ written = <<>>

Served == spc = "ready" /\ sout # <<>>

\* the non-negative ordinals of the lists of all the queries of the request
ReturnedByAnyQuery ==
  UNION {{x \in Range(indexes[k]) : x >= 0} : k \in 1..Len(indexes)}

\* the weighted sum of the similarities of ordinal x to all the queries
AggregateScore(x) ==
  SumSeq([k \in 1..num_queries |->
            queries_weight[k] *
              compute_similarity(Stored(x), queries_vector[k], similarity)])

\* C14: the result count R of an answered request is min(K, |U|), U being
\* the candidate set of the request (as computed, and as the union of the
\* lists of all the queries), so R <= K
C14_CountIsMinOfKAndCandidates ==
  Served =>
    /\ sout[1] = Len(result)
    /\ sout[1] = Min(num_documents, Cardinality(indexes_retrieved))
    /\ sout[1] = Min(num_documents, Cardinality(ReturnedByAnyQuery))
    /\ sout[1] <= num_documents

C14_Witness ==
  /\ Served
  /\ num_queries = 2
  /\ Cardinality(ReturnedByAnyQuery) > num_documents
  /\ sout[1] = num_documents

\* C15: the results of a response are in non-increasing order of aggregate
\* score, no ordinal is returned twice, and no candidate left out of the
\* response has an aggregate score above that of the last result
C15_OrderedByAggregateScore ==
  Served =>
    /\ \A n \in 1..Len(result) : \A m \in (n + 1)..Len(result) :
         /\ AggregateScore(result[n][1]) >= AggregateScore(result[m][1])
         /\ result[n][1] # result[m][1]
    /\ \A x \in ReturnedByAnyQuery \ {result[n][1] : n \in 1..Len(result)} :
         AggregateScore(x) <= AggregateScore(result[Len(result)][1])

\* C16: a request whose K is below 1 ends the run: nothing is written for it
\* to the output stream or to the sync channel (no count, no group, no
\* blank line, no trace), no search result exists, and the process takes no
\* further step
C16_StopIsClean ==
  /\ [](spc = "stopped" =>
          /\ sout = <<>>
          /\ serr = <<>>
          /\ indexes = <<>>
          /\ result = <<>>)
  /\ [][spc # "stopped"]_vars

C16_Witness == spc = "stopped" /\ Len(shards) >= 2 /\ docs_ref # <<>>

\* C17: a line of Q, K or a weight that is no number aborts only its
\* request: the error is on the sync channel and the worker is ready for
\* the next request
C17_BadLineAbortsRequestOnly ==
  serr = <<"ValueError">> => spc = "ready"

\* C18: with a similarity outside {cos, dot, l2, l2sq}, a batch size below 1
\* or a chunk size below 1 the builder ends before its ready line: no blank
\* line is on its sync channel, no input line is consumed, nothing is
\* written; with such a similarity the search worker too ends before its
\* ready line and loads nothing
C18_ConfigErrorBeforeReady ==
  /\ (similarity \notin {"cos", "dot", "l2", "l2sq"}
        \/ batch_size < 1 \/ chunks_size < 1)
       => /\ bpc \in {"init", "failed"}
          /\ \A k \in 1..Len(err) : err[k] # ""
          /\ pos = 0
          /\ out = <<>>
          /\ disk = <<>>
  /\ similarity \notin {"cos", "dot", "l2", "l2sq"}
       => /\ spc \in {"init", "crashed"}
          /\ \A k \in 1..Len(serr) : serr[k] # ""
          /\ shards = <<>>
          /\ sout = <<>>

C18_Witness ==
  /\ similarity = "other"
  /\ chunks_size < 1
  /\ stdin # <<>>
  /\ bpc = "failed"
  /\ err = <<"usage">>
  /\ spc = "crashed"
  /\ serr = <<"usage">>

\* an answered request of one query of weight 1 under the dot metric
SingleDotQuery ==
  Served /\ similarity = "dot" /\ num_queries = 1 /\ queries_weight = <<1>>

\* C20 as stated: under the dot metric a single query of weight 1 whose
\* vector is the vector stored at ordinal o has o as its first result, with
\* the dot product of that vector with itself as score, whatever the index
\* holds
C20_SelfQueryFirst ==
  SingleDotQuery =>
    \A o \in 0..(curr_start - 1) :
      Stored(o) = queries_vector[1]
        => /\ result # <<>>
           /\ result[1] = <<o, Dot(Stored(o), Stored(o))>>

\* C20 amended: the same, for an index in which no other stored vector has
\* a dot product with the query as large as the query's dot product with
\* itself
C20_SelfQueryFirstIfLargest ==
  SingleDotQuery =>
    \A o \in 0..(curr_start - 1) :
      (/\ Stored(o) = queries_vector[1]
       /\ \A x \in (0..(curr_start - 1)) \ {o} :
            Dot(Stored(x), queries_vector[1])
              < Dot(queries_vector[1], queries_vector[1]))
        => /\ result # <<>>
           /\ result[1] = <<o, Dot(Stored(o), Stored(o))>>

C20_Witness ==
  /\ SingleDotQuery
  /\ curr_start = 3
  /\ Len(shards) = 2
  /\ Stored(2) = queries_vector[1]
  /\ result[1] = <<2, 25>>

\* ------------------------------------- a short build, then the search run
SyncInit ==
  /\ \E n \in 0..MaxSyncLines : \E f \in [1..n -> BOOLEAN] :
       stdin = Lines(n, f)
  /\ pos = 0
  /\ similarity \in SimilarityArgs
  /\ batch_size \in 0..MaxSyncBatch
  /\ chunks_size \in 0..MaxSyncChunk
  /\ text_batch = <<>>
  /\ faiss_index = <<>>
  /\ doc_index_counter = 0
  /\ index_counter = 0
  /\ disk = <<>>
  /\ written = <<>>
  /\ added = <<>>
  /\ first = <<>>
  /\ bpc = "init"
  /\ out = <<>>
  /\ err = <<>>
  /\ \E tabbed \in BOOLEAN :
       /\ docs_file = DocsFile(MaxSyncLines, tabbed)
       /\ refs_file = Offsets(MaxSyncLines, tabbed)
  /\ SearchOff

SyncNext ==
  \/ BuildConfigError
  \/ BuildStart
  \/ BuildAppend
  \/ BuildFlush
  \/ BuildRollover
  \/ BuildBatchError
  \/ BuildEOF
  \/ BuildEOFError
  \/ SearchStart
  \/ SearchConfigError
  \/ SearchLoadShard
  \/ SearchLoadEnd
  \/ SearchServe
  \/ SearchHydrateError
  \/ SearchNoQueries
  \/ SearchStop
  \/ SearchEOF
  \/ SearchBadLine
  \/ SearchNoShards

SyncSpec == SyncInit /\ [][SyncNext]_vars

\* a step of the builder that ends at a sync point: the initialisation, a
\* line at a flush point, the end of the input
BuildStepCompleted ==
  \/ bpc = "init" /\ bpc' = "run"
  \/ /\ bpc = "run" /\ bpc' = "run" /\ pos' = pos + 1
     /\ stdin[pos + 1] = 0 \/ Len(text_batch) + 1 >= batch_size
  \/ bpc = "run" /\ bpc' = "done"

BuildStepFailed == bpc # "failed" /\ bpc' = "failed"

\* a step of the search worker: the end of the loading, a request
SearchStepCompleted ==
  \/ spc = "load" /\ spc' = "ready"
  \/ spc = "ready" /\ spc' = "ready" /\ reqvars' # reqvars
  \/ spc = "ready" /\ spc' = "ready" /\ sout' # sout

SearchStepFailed == spc # "crashed" /\ spc' = "crashed"

NonBlank == {"trace", "usage", "IndexError", "ValueError"}

CorruptFile == <<[doc |-> 0, vec |-> <<0>>]>>

\* a search worker started on a directory in which any of the files
\* 1..MaxFiles may be missing or unreadable; file n holds n rows
LoadInit ==
  /\ stdin = <<>>
  /\ pos = 0
  /\ similarity \in Similarities
  /\ batch_size = 1
  /\ chunks_size = 1
  /\ text_batch = <<>>
  /\ faiss_index = <<>>
  /\ doc_index_counter = 0
  /\ index_counter = 0
  /\ \E S \in SUBSET (1..MaxFiles) : \E bad \in SUBSET S :
       disk = [n \in S |-> IF n \in bad THEN CorruptFile
                           ELSE process_batch([k \in 1..n |-> k])]
  /\ written = <<>>
  /\ added = <<>>
  /\ first = <<>>
  /\ bpc = "done"
  /\ out = <<>>
  /\ err = <<>>
  /\ docs_file = DocsFile(MaxFiles, TRUE)
  /\ refs_file = Offsets(MaxFiles, TRUE)
  /\ SearchOff

LoadNext ==
  \/ SearchStart
  \/ SearchLoadShard
  \/ SearchLoadEnd

LoadSpec == LoadInit /\ [][LoadNext]_vars

\* the number of files before the first number that is missing or unreadable
FirstGap ==
  CHOOSE n \in 0..(MaxFiles + 1) :
    /\ \A k \in 1..n : k \in DOMAIN disk /\ disk[k] # CorruptFile
    /\ ~(n + 1 \in DOMAIN disk /\ disk[n + 1] # CorruptFile)

\* C21: the shard files are read in the order 1, 2, 3, ...; the loading
\* stops at the first number whose file is missing or unreadable, the
\* shards loaded are exactly the files before it, in order, the ready line
\* is emitted with no error, and no file above the gap is loaded
C21_LoadStopsAtFirstGap ==
  /\ Len(shards) <= FirstGap
  /\ shards = [k \in 1..Len(shards) |-> disk[k]]
  /\ spc = "load" => i = Len(shards) + 1
  /\ spc = "ready" => /\ Len(shards) = FirstGap
                      /\ serr = <<"">>
  /\ spc \in {"init", "load", "ready"}

C21_Witness ==
  /\ spc = "ready"
  /\ Len(shards) = 1
  /\ 2 \notin DOMAIN disk
  /\ 3 \in DOMAIN disk
  /\ disk[3] # CorruptFile

\* ------------------------------------------------- the records of the store
\* the position of the first tab of a line, 0 when it has none
FirstTab(line) ==
  IF \A k \in 1..Len(line) : line[k] # "\t" THEN 0
  ELSE CHOOSE k \in 1..Len(line) :
         line[k] = "\t" /\ \A h \in 1..(k - 1) : line[h] # "\t"

RECURSIVE StripTrailing(_)
StripTrailing(s) ==
  IF s # <<>> /\ s[Len(s)] \in Blank THEN StripTrailing(SubSeq(s, 1, Len(s) - 1))
  ELSE s

\* the line of the text store at offsets[o]
Record(o) == ReadLine(docs_file, docs_ref[o + 1])

\* the id of a record: the part of its line before the first tab
RecordId(line) == SubSeq(line, 1, FirstTab(line) - 1)

\* the text of a record: all that follows the first tab, less the trailing
\* whitespace
RecordText(line) == StripTrailing(SubSeq(line, FirstTab(line) + 1, Len(line)))

\* C22: an answered request with K >= 1 has written the count R and then
\* exactly R groups of four lines, the id, the aggregate score, the ordinal
\* and the text of the record at offsets[ordinal], and the blank sync line
\* is there only with the whole block
C22_BlockOfRecordsThenSync ==
  /\ Served =>
       /\ sout[1] = Len(result)
       /\ Len(sout) = 1 + 4 * Len(result)
       /\ \A n \in 1..Len(result) :
            /\ sout[4 * n - 2] = RecordId(Record(result[n][1]))
            /\ sout[4 * n - 1] = result[n][2]
            /\ sout[4 * n] = result[n][1]
            /\ sout[4 * n + 1] = RecordText(Record(result[n][1]))
       /\ serr = <<"">>
  /\ (sout # <<>> /\ serr = <<"">>) => Len(sout) = 1 + 4 * sout[1]

\* C23: the id printed for an ordinal is the part of its line before the
\* first tab and the text printed is all that follows that first tab, less
\* the trailing whitespace, also when the text holds tabs
C23_SplitAtFirstTab ==
  Served =>
    \A n \in 1..Len(result) :
      LET temp == Fields(docs_file, docs_ref, result[n][1])
      IN /\ temp[1] = RecordId(Record(result[n][1]))
         /\ temp[2] = RecordText(Record(result[n][1]))

\* the shard files written or rewritten by a step
WrittenByStep ==
  {n \in DOMAIN disk' : n \notin DOMAIN disk \/ disk'[n] # disk[n]}

\* C24: every shard file the builder writes holds at most C + B - 1
\* vectors, and a shard file written at a rollover, after which the build
\* goes on, holds at least C vectors
C24_ShardSizeBounds ==
  [][\A n \in WrittenByStep :
       /\ Len(disk'[n]) <= chunks_size + batch_size - 1
       /\ bpc' = "run" => Len(disk'[n]) >= chunks_size]_vars

C24_Witness ==
  /\ bpc = "run"
  /\ chunks_size = 2
  /\ batch_size = 3
  /\ Len(written) = 1
  /\ Len(disk[written[1]]) = 4
  /\ pos < Len(stdin)

\* the shard files that hold a row of a batch
FilesOf(batch) ==
  {n \in DOMAIN disk :
     \E r \in 1..Len(disk[n]) : \E b \in 1..Len(batch) :
       disk[n][r].doc = batch[b]}

\* C25: the rows of one batch handed to the encoder are never in two shard
\* files: a file that holds one of them holds them all
C25_BatchInOneShard ==
  \A j \in 1..Len(Handed) :
    /\ Cardinality(FilesOf(Handed[j])) <= 1
    /\ \A n \in FilesOf(Handed[j]) :
         \A b \in 1..Len(Handed[j]) :
           \E r \in 1..Len(disk[n]) : disk[n][r].doc = Handed[j][b]

C25_Witness ==
  /\ bpc = "done"
  /\ chunks_size = 2
  /\ batch_size = 3
  /\ Len(Handed) = 3
  /\ Len(Handed[1]) = 1
  /\ Len(Handed[2]) = 3
  /\ Len(written) = 2
  /\ Len(disk[written[1]]) = 4

\* a vector divided by its own L2 norm
Normalized(v) == [c \in 1..Len(v) |-> (v[c] * Unit) \div Norm(v)]

\* C26: under the cosine metric every row added to the index is the vector
\* of its text divided by the norm of that same vector, whatever the size
\* of its batch, and the rows are added in input order
C26_RowsDividedByOwnNorm ==
  similarity = "cos" =>
    \A r \in 1..Len(added) :
      /\ added[r].doc = r
      /\ added[r].vec = Normalized(Encode(added[r].doc))

\* C27: every ordinal of a response is in [0, N), N being the number of
\* vectors loaded, and a request whose K exceeds the size of a shard or of
\* the whole index is still answered, with fewer than K results: the worker
\* is not ended by it
C27_OrdinalsInRangeAnyK ==
  /\ Served =>
       /\ \A n \in 1..Len(result) :
            result[n][1] >= 0 /\ result[n][1] < curr_start
       /\ num_documents > curr_start => Len(result) < num_documents
  /\ spc # "killed"

\* the similarity of lines 73-81 of a stored vector v to a query vector q,
\* from the coordinates
ExactSimilarity(v, q) ==
  IF similarity \in {"cos", "dot"} THEN Dot(v, q)
  ELSE IF similarity = "l2" THEN ISqrt(SqDist(v, q))
  ELSE SqDist(v, q)

\* C28: in an answered request the vectors reconstructed are one per
\* candidate ordinal, each the vector stored at that ordinal, also for an
\* ordinal that several queries returned, and the score of a result is the
\* weight times the similarity computed from that vector (under l2 the
\* distance, not the squared distance the shard search returns)
C28_ReconstructedOncePerCandidate ==
  Served =>
    /\ DOMAIN vectors = indexes_retrieved
    /\ \A x \in indexes_retrieved : vectors[x] = Stored(x)
    /\ \A n \in 1..Len(result) :
         /\ result[n][1] \in DOMAIN vectors
         /\ result[n][2] =
              queries_weight[num_queries] *
                ExactSimilarity(vectors[result[n][1]],
                                queries_vector[num_queries])

C28_Witness ==
  /\ Served
  /\ similarity = "l2"
  /\ num_queries = 2
  /\ \E x \in indexes_retrieved :
       /\ x > 0
       /\ x \in Range(indexes[1]) \cap Range(indexes[2])
       /\ \E n \in 1..Len(result) :
            /\ result[n][1] = x
            /\ result[n][2] # queries_weight[2] *
                                SqDist(Stored(x), queries_vector[2])

\* the distance of the vector stored at ordinal x to the only query
Distance(x) == ExactSimilarity(Stored(x), queries_vector[1])

\* C29: under l2 and l2sq the results of a request of one query are in
\* the order of their distance to the query, the farthest first when the
\* weight is positive and the nearest first when it is negative
C29_DistancesNotInverted ==
  (Served /\ similarity \in {"l2", "l2sq"} /\ num_queries = 1) =>
    \A n \in 1..Len(result) : \A m \in (n + 1)..Len(result) :
      /\ queries_weight[1] > 0 => Distance(result[n][1]) >= Distance(result[m][1])
      /\ queries_weight[1] < 0 => Distance(result[n][1]) <= Distance(result[m][1])

C29_Witness ==
  /\ Served
  /\ similarity = "l2"
  /\ num_queries = 1
  /\ queries_weight[1] > 0
  /\ Len(result) = 2
  /\ Distance(result[1][1]) > Distance(result[2][1])

\* C30: no step of a worker that has emitted the ready line (a request
\* answered, failed, or the end of the run) changes the shard collection,
\* the shard start table or the offsets table, so after any sequence of
\* requests they are what they were at the ready line
C30_LoadedTablesNeverChange ==
  [][spc = "ready" =>
       /\ shards' = shards
       /\ shards_start' = shards_start
       /\ docs_ref' = docs_ref]_vars

C30_Witness ==
  /\ Served
  /\ Len(result) = 2
  /\ Len(shards) = 2
  /\ shards = disk
  /\ shards_start = <<0, Len(shards[1])>>
  /\ docs_ref = refs_file

\* C31: the step in which process_batch raises, and every step after it,
\* writes no shard file (the open shard is not flushed), leaves the shard
\* files on disk as they are and emits no blank sync line and no timing
\* for the failing batch: the sync channel gains the trace only
C31_EncoderFailureAborts ==
  [][(BuildStepFailed \/ bpc = "failed") =>
       /\ disk' = disk
       /\ written' = written
       /\ index_counter' = index_counter
       /\ out' = out
       /\ BlankLines(err') = BlankLines(err)
       /\ BuildStepFailed => Len(err') = Len(err) + 1]_vars

C31_Witness ==
  /\ bpc = "failed"
  /\ pos > 0
  /\ Len(written) = 1
  /\ DOMAIN disk = {1}
  /\ Len(faiss_index) > 0
  /\ Len(text_batch) > 0
  /\ err[Len(err)] = "trace"

\* ------------------------------------------- the threads of a shard search
\* a search worker on the shard files of a finished build, its shard
\* searches followed task by task
ThreadedNext ==
  \/ SearchStart
  \/ SearchLoadShard
  \/ SearchLoadEnd
  \/ SearchSubmit
  \/ ShardSearchStart
  \/ ShardSearchEnd
  \/ SearchJoin

ThreadedSpec == SearchInit /\ [][ThreadedNext]_vars

\* the shards whose search is running
Running == {s \in DOMAIN tasks : tasks[s] = "running"}

\* C32 as stated: the searches of the shards of one request run one after
\* another, never two at a time
C32_ShardSearchesSerial == Cardinality(Running) <= 1

\* C32 amended: the requests are handled one at a time and all of a
\* request but the shard searches runs in the main thread; the search of
\* each shard runs in that shard's worker thread, at most one task per
\* shard and only while the main thread is inside shards.search, which
\* returns when the task of every shard has ended
C32_ShardSearchesJoined ==
  [][/\ spc # "searching" => tasks = <<>>
     /\ spc = "searching" => Len(tasks) = Len(shards)
     /\ (spc = "searching" /\ spc' # "searching") =>
          \A s \in DOMAIN tasks : tasks[s] = "done"
     /\ (sout' # sout \/ serr' # serr) => Running = {}]_vars

C32_Witness ==
  /\ spc = "searching"
  /\ Len(shards) = 3
  /\ Cardinality(Running) = 2
  /\ \E s \in DOMAIN tasks : tasks[s] = "done"

\* ------------------------------------------- the closing of the input channel
\* a search worker on a non-empty index, its requests followed line by line
ReadInit == SearchInit /\ disk # <<>>

ReadNext ==
  \/ SearchStart
  \/ SearchLoadShard
  \/ SearchLoadEnd
  \/ SearchReadCount
  \/ SearchReadPair
  \/ SearchReadDocuments
  \/ SearchReadEOF
  \/ ShardSearchStart
  \/ ShardSearchEnd
  \/ SearchJoin

ReadSpec == ReadInit /\ [][ReadNext]_vars

\* C33 as stated: once the line of Q of a request has been read the closing
\* of the channel never ends the run with that request unanswered
C33_NoAbandonAfterCount ==
  [][spc = "reading" => spc' # "ended"]_vars

\* C33 amended: the closing of the channel takes effect at the next
\* input(), the line of Q or any later line of the request, and ends the
\* run with nothing written; once the line of K has been read the request
\* is carried to its end, the sync line or the trace
C33_NoAbandonAfterDocuments ==
  [][/\ spc = "searching" =>
          /\ spc' \in {"searching", "ready", "crashed"}
          /\ spc' # "searching" => (sout' # <<>> /\ serr' # <<>>)
     /\ spc' = "ended" =>
          /\ spc \in {"ready", "reading"}
          /\ sout' = sout
          /\ serr' = serr
          /\ spc = "reading" => (sout' = <<>> /\ serr' = <<>>)]_vars

C33_Witness ==
  /\ spc = "ended"
  /\ num_queries = 2
  /\ Len(queries_weight) = 1
  /\ queries_vector[2] = Zeros
  /\ sout = <<>>
  /\ serr = <<>>

\* C34: every shard file the builder has written holds at least one
\* vector, and a build whose input has no non-empty line writes none
C34_NoEmptyShard ==
  /\ \A n \in DOMAIN disk : Len(disk[n]) >= 1
  /\ NonEmptyLines = <<>> => (DOMAIN disk = {} /\ written = <<>>)

C34_Witness ==
  /\ bpc = "done"
  /\ Len(stdin) = 2
  /\ NonEmptyLines = <<>>
  /\ DOMAIN disk = {}
  /\ BlankLines(err) = 4

\* the response of lines 189-221 as a function of the lines of the request
\* (the query vectors, the weights and K), of the lists the shard search
\* returned for them, of the loaded index and of the text store
FromRequestOnly ==
  LET U == {x \in Range(indexes[num_queries]) : x >= 0}
      qr == [x \in U |->
               queries_weight[num_queries] *
                 ExactSimilarity(Stored(x), queries_vector[num_queries])]
  IN /\ \E texts \in [1..num_queries -> {q[1] : q \in Queries}] :
          queries_vector = [k \in 1..num_queries |-> QueryVector(texts[k])]
     /\ i = num_queries - 1
     /\ indexes_retrieved = U
     /\ result = SortedResult(qr, num_documents)
     /\ sout = Response(docs_file, docs_ref, result)

\* the request answered by a step has the lines of the request answered
\* before it, and the shard search returned the same lists
SameRequest ==
  /\ num_queries' = num_queries
  /\ queries_vector' = queries_vector
  /\ queries_weight' = queries_weight
  /\ num_documents' = num_documents
  /\ indexes' = indexes

C36_NoQueriesAnswered ==
  [][SearchNoQueries =>
       /\ sout' = <<0>>
       /\ serr' = <<"">>
       /\ spc' = "ready"]_vars

\* ------------------------------------------------- the load after a rebuild
\* the search worker is started when the second build has ended
SearchStartAfterRebuild == first # <<>> /\ SearchStart

\* two builds with the same shard filename template, then the load of the
\* search worker
ReloadNext ==
  \/ BuildConfigError
  \/ BuildStart
  \/ BuildAppend
  \/ BuildFlush
  \/ BuildRollover
  \/ BuildBatchError
  \/ BuildEOF
  \/ BuildEOFError
  \/ Rebuild
  \/ SearchStartAfterRebuild
  \/ SearchLoadShard
  \/ SearchLoadEnd

ReloadSpec == RebuildInit /\ [][ReloadNext]_vars

\* C37: the shards loaded by a worker started after the most recent build
\* are exactly the shard files that build wrote, in order, also when the
\* build before it had written more files
C37_LoadsMostRecentBuild ==
  (spc = "ready" /\ first # <<>>) =>
    /\ Len(shards) = Len(written)
    /\ \A k \in 1..Len(written) :
         k <= Len(shards) /\ shards[k] = disk[written[k]]

\* C38: when the hydration of a result fails (no entry of the offsets
\* table for the ordinal, or no tab in the line of the document) nothing
\* of the request is on the output stream, neither the count line nor a
\* result group
C38_AllOrNothing ==
  (spc = "crashed" /\ serr = <<"IndexError">> /\ num_queries >= 1) =>
    sout = <<>>
====
